---- MODULE Spec2Model ----
(***************************************************************************)
(* A model of @aegisjsproject/attempt: the AttemptResult tuple classes,    *)
(* succeed()/fail(), the accessors, attemptSync()/attemptAsync(), the      *)
(* result handlers and attemptAll() of src/attempt.js, together with the   *)
(* ResultTuple/SuccessTuple/FailureTuple classes of the v1.0.6 refactor    *)
(* (src/unnamed/part_001).                                                 *)
(*                                                                         *)
(* JavaScript values are records [t, c, s, n]: t is the kind of value, c   *)
(* the class of an object, s a string payload (a string's text, an         *)
(* error's message) and n a numeric payload (a number, an object's        *)
(* identity, an AbortSignal's identity, the heap address of an outcome).   *)
(***************************************************************************)
EXTENDS Integers, Sequences, FiniteSets, TLC

VARIABLES heap, tuples, ret, task, all, fired, pipes

vars == <<heap, tuples, ret, task, all, fired, pipes>>

\* ------------------------------------------------------------------------
\* Bounds of the model

\* the largest number of AttemptResult objects of src/attempt.js alive
MaxHeap == 2

\* the largest number of ResultTuple objects of the v1.0.6 classes alive
MaxTuples == 2

\* the longest callback list passed to attemptAll
MaxCallbacks == 2

\* ------------------------------------------------------------------------
\* Program constants

VALUE_INDEX == 0

ERROR_INDEX == 1

OK_INDEX == 2

\* ------------------------------------------------------------------------
\* JavaScript values

JS(t, c, s, n) == [t |-> t, c |-> c, s |-> s, n |-> n]

Null == JS("null", "", "", 0)

Undefined == JS("undefined", "", "", 0)

True == JS("boolean", "", "", 1)

False == JS("boolean", "", "", 0)

Num(n) == JS("number", "", "", n)

Str(s) == JS("string", "", s, 0)

\* Symbol('attempt:status:succeeded')
SUCCEEDED == JS("symbol", "", "attempt:status:succeeded", 0)

\* Symbol('attempt:status:failed')
FAILED == JS("symbol", "", "attempt:status:failed", 0)

\* an Error object of class c with the message s; n is its identity: the
\* errors the caller made have n > 0, the ones the library makes have n = 0
ErrorObject(c, s, n) == JS("object", c, s, n)

\* an AbortSignal; n names it in Signals
Signal(n) == JS("object", "AbortSignal", "", n)

\* a reference to the AttemptResult object at heap address n
Ref(n) == JS("object", "AttemptResult", "", n)

\* the error thrown by the test suite's err() callback
Err1 == ErrorObject("Error", "I throw", 1)

\* the AbortSignals of the model: 1 is not aborted (AbortSignal.timeout
\* before it fires), 2 is AbortSignal.abort(err) for the error Err1, 3 is
\* AbortSignal.abort('boom'), 4 is AbortSignal.abort(42), and 5 is an
\* AbortSignal.timeout(500) as it is when the caller makes it for a call of
\* handleResultAsync: its timer may fire while that call is in flight
Signals ==
    <<[aborted |-> FALSE, reason |-> Undefined],
      [aborted |-> TRUE, reason |-> Err1],
      [aborted |-> TRUE, reason |-> Str("boom")],
      [aborted |-> TRUE, reason |-> Num(42)],
      [aborted |-> FALSE, reason |-> Undefined]>>

SigLive == Signal(1)

SigAbort == Signal(2)

SigStr == Signal(3)

SigNum == Signal(4)

SigTimer == Signal(5)

\* the values a caller passes or a callback returns, other than outcomes
Values == {Null, Undefined, Num(5)}

\* an array that is no outcome, such as ['Invalid', 'error']
Invalid == JS("object", "Array", "", 0)

\* the values a caller passes as an error or a callback throws, other than
\* outcomes
Thrown == {Null, Num(42), Invalid, Str("boom"), Err1, SigLive, SigAbort, SigStr, SigNum}

Digit == <<"0", "1", "2", "3", "4", "5", "6", "7", "8", "9">>

RECURSIVE NumberToString(_)
\* Number.prototype.toString for a natural number
NumberToString(n) ==
    IF n < 10 THEN Digit[n + 1]
    ELSE NumberToString(n \div 10) \o Digit[(n % 10) + 1]

\* ToString of the language, for the values of the model
JSToString(v) ==
    CASE v.t = "string" -> v.s
      [] v.t = "number" -> NumberToString(v.n)
      [] v.t = "null" -> "null"
      [] v.t = "undefined" -> "undefined"
      [] v.t = "boolean" -> (IF v.n = 1 THEN "true" ELSE "false")
      [] v.t = "object" /\ v.c \in {"Error", "TypeError"} -> v.c \o ": " \o v.s
      [] OTHER -> "[object " \o v.c \o "]"

\* new Error() that drops its argument
NewErrorNoMessage(message) == ErrorObject("Error", "", 0)

\* new Error(message): the message is the string form of message, and is left empty
\* when message is undefined
NewError(message) ==
    ErrorObject("Error", IF message.t = "undefined" THEN "" ELSE JSToString(message), 0)

\* new TypeError(message) for a string literal
NewTypeError(s) == ErrorObject("TypeError", s, 0)

\* Error.isError(v), and v instanceof Error
IsError(v) == v.t = "object" /\ v.c \in {"Error", "TypeError"}

\* v instanceof AbortSignal
IsAbortSignal(v) == v.t = "object" /\ v.c = "AbortSignal"

\* the completion of a call: it returned v or threw v, leaving the heap h
\* and having invoked the callbacks listed in calls
Return(v, h) == [k |-> "return", v |-> v, h |-> h, calls |-> <<>>]

Throw(v, h) == [k |-> "throw", v |-> v, h |-> h, calls |-> <<>>]

\* the completion c of a call that first invoked the callback cb with arg
AfterCall(cb, arg, c) == [c EXCEPT !.calls = <<[f |-> cb.name, arg |-> arg]>> \o @]

\* ------------------------------------------------------------------------
\* Callbacks: what the caller passes where a function is expected.  fn says
\* whether typeof gives 'function', async whether it is an async function,
\* and k what a call does: return v, throw v, return its argument (echo),
\* throw its argument (rethrow), or return a promise that later fulfils
\* with v or rejects with v.

Callback(name, fn, async, k, v) == [name |-> name, fn |-> fn, async |-> async, k |-> k, v |-> v]

\* a value that is not a function, such as null or 'Not a function.'
NotAFunction(name) == Callback(name, FALSE, FALSE, "none", Null)

\* an option left out of the handlers object
Absent(name) == Callback(name, FALSE, FALSE, "absent", Undefined)

\* const _successHandler = input => input
_successHandler == Callback("_successHandler", TRUE, FALSE, "echo", Undefined)

\* a default failure handler that returns the error
_failHandlerReturns == Callback("_failHandler", TRUE, FALSE, "echo", Undefined)

\* const _failHandler = err => { throw err; }
_failHandler == Callback("_failHandler", TRUE, FALSE, "rethrow", Undefined)

\* a promise object, which is a value like any other to synchronous code
Promise(k) == JS("object", "Promise", k, 0)

\* callback(...args) for a function that is not async: a function that
\* returns a promise returns normally
Invoke(cb, arg) ==
    CASE cb.k = "return" -> [k |-> "return", v |-> cb.v]
      [] cb.k = "throw" -> [k |-> "throw", v |-> cb.v]
      [] cb.k = "echo" -> [k |-> "return", v |-> arg]
      [] cb.k = "rethrow" -> [k |-> "throw", v |-> arg]
      [] cb.k \in {"fulfil", "reject"} -> [k |-> "return", v |-> Promise(cb.k)]

\* ------------------------------------------------------------------------
\* The classes of src/attempt.js

\* AttemptResult's constructor without Object.freeze(this)
AttemptResultUnfrozen(cls, value, error) ==
    [cls |-> cls, slots |-> <<value, error>>, frozen |-> FALSE]

\* AttemptResult's constructor: super(value, error); Object.freeze(this)
AttemptResult(cls, value, error) ==
    [cls |-> cls, slots |-> <<value, error>>, frozen |-> TRUE]

\* AttemptSuccess with the arguments of super() swapped
AttemptSuccessSwapped(value) == AttemptResult("AttemptSuccess", Null, value)

\* new AttemptSuccess(value)
AttemptSuccess(value) == AttemptResult("AttemptSuccess", value, Null)

\* AttemptFailure wrapping whatever is no Error in new Error(error)
AttemptFailureWrapsAll(error, h) ==
    IF IsAbortSignal(error) /\ ~Signals[error.n].aborted
    THEN Throw(NewTypeError("AbortSignal must be aborted to be used as an error."), h)
    ELSE Return(Ref(Len(h) + 1),
                Append(h, AttemptResult("AttemptFailure", Null,
                    IF IsError(error) THEN error
                    ELSE IF ~IsAbortSignal(error) THEN NewError(error)
                    ELSE IF IsError(Signals[error.n].reason) THEN Signals[error.n].reason
                    ELSE NewError(Signals[error.n].reason))))

\* new AttemptFailure(error): the object made, or the TypeError thrown
AttemptFailure(error, h) ==
    IF IsError(error)
    THEN Return(Ref(Len(h) + 1), Append(h, AttemptResult("AttemptFailure", Null, error)))
    ELSE IF error.t = "string"
    THEN Return(Ref(Len(h) + 1), Append(h, AttemptResult("AttemptFailure", Null, NewError(error))))
    ELSE IF ~IsAbortSignal(error)
    THEN Return(Ref(Len(h) + 1),
                Append(h, AttemptResult("AttemptFailure", Null, NewTypeError("Invalid error type provided."))))
    ELSE IF ~Signals[error.n].aborted
    THEN Throw(NewTypeError("AbortSignal must be aborted to be used as an error."), h)
    ELSE Return(Ref(Len(h) + 1),
                Append(h, AttemptResult("AttemptFailure", Null,
                    IF IsError(Signals[error.n].reason) THEN Signals[error.n].reason
                    ELSE NewError(Signals[error.n].reason))))

\* result instanceof AttemptResult
isAttemptResult(result) == result.t = "object" /\ result.c = "AttemptResult"

\* result instanceof AttemptSuccess
succeeded(result, h) == isAttemptResult(result) /\ h[result.n].cls = "AttemptSuccess"

\* result instanceof AttemptFailure
failed(result, h) == isAttemptResult(result) /\ h[result.n].cls = "AttemptFailure"

\* the status getter of AttemptSuccess and of AttemptFailure
status(obj) == IF obj.cls = "AttemptSuccess" THEN SUCCEEDED ELSE FAILED

\* result[i] for an array index i
Index(obj, i) == IF i + 1 \in DOMAIN obj.slots THEN obj.slots[i + 1] ELSE Undefined

\* succeed without the instanceof test
succeedAlwaysWraps(value, h) == Return(Ref(Len(h) + 1), Append(h, AttemptSuccess(value)))

succeed(value, h) ==
    IF isAttemptResult(value) THEN Return(value, h)
    ELSE Return(Ref(Len(h) + 1), Append(h, AttemptSuccess(value)))

\* fail without the instanceof test
failAlwaysWraps(err, h) == AttemptFailure(err, h)

fail(err, h) ==
    IF isAttemptResult(err) THEN Return(err, h)
    ELSE AttemptFailure(err, h)

getAttemptStatus(result, h) ==
    IF isAttemptResult(result) THEN Return(status(h[result.n]), h)
    ELSE Throw(NewTypeError("Result must be an AttemptResult tuple."), h)

\* getResultValue reading the value slot of any outcome
getResultValueOfAny(result, h) ==
    IF isAttemptResult(result) THEN Return(Index(h[result.n], VALUE_INDEX), h)
    ELSE Throw(NewTypeError("Result must be an AttemptSuccess tuple."), h)

getResultValue(result, h) ==
    IF succeeded(result, h) THEN Return(Index(h[result.n], VALUE_INDEX), h)
    ELSE Throw(NewTypeError("Result must be an AttemptSuccess tuple."), h)

getResultError(result, h) ==
    IF failed(result, h) THEN Return(Index(h[result.n], ERROR_INDEX), h)
    ELSE Throw(NewTypeError("Result must be an AttemptFailure tuple."), h)

\* throwIfFailed throwing a new Error made from the error
throwIfFailedThrowsNew(result, h) ==
    IF failed(result, h) THEN Throw(NewError(getResultError(result, h).v), h)
    ELSE Return(Undefined, h)

throwIfFailed(result, h) ==
    IF failed(result, h) THEN Throw(getResultError(result, h).v, h)
    ELSE Return(Undefined, h)

\* attemptSync without the test for an async function
attemptSyncTakesAsync(callback, arg, h) ==
    IF ~callback.fn
    THEN Throw(NewTypeError("callback must be a function."), h)
    ELSE AfterCall(callback, arg,
            IF Invoke(callback, arg).k = "return"
            THEN succeed(Invoke(callback, arg).v, h)
            ELSE fail(Invoke(callback, arg).v, h))

attemptSync(callback, arg, h) ==
    IF ~callback.fn
    THEN Throw(NewTypeError("callback must be a function."), h)
    ELSE IF callback.async
    THEN Throw(NewTypeError("callback cannot be an async function."), h)
    ELSE AfterCall(callback, arg,
            IF Invoke(callback, arg).k = "return"
            THEN succeed(Invoke(callback, arg).v, h)
            ELSE fail(Invoke(callback, arg).v, h))

\* a default that applies to every option that is not a function
DefaultForNonFunctions(option, default) == IF ~option.fn THEN default ELSE option

\* the default of a destructured option: it applies when the option is
\* undefined
Default(option, default) == IF option.k = "absent" THEN default ELSE option

handleResultSync(result, success, failure, h) ==
    IF ~isAttemptResult(result)
    THEN Throw(NewTypeError("Result must be an AttemptResult tuple."), h)
    ELSE IF ~Default(success, _successHandler).fn \/ ~Default(failure, _failHandler).fn
    THEN Throw(NewTypeError("Both success and failure handlers must be functions."), h)
    ELSE IF getAttemptStatus(result, h).v = SUCCEEDED
    THEN attemptSync(Default(success, _successHandler), getResultValue(result, h).v, h)
    ELSE attemptSync(Default(failure, _failHandler), getResultError(result, h).v, h)

\* a write by the caller to the array obj: obj[i] = v, which is obj.push(v)
\* when i is obj.length.  A frozen array ignores it (and throws in strict
\* mode).
Write(obj, i, v) ==
    IF obj.frozen THEN obj
    ELSE IF i + 1 \in DOMAIN obj.slots THEN [obj EXCEPT !.slots[i + 1] = v]
    ELSE [obj EXCEPT !.slots = Append(@, v)]

\* obj.pop() by the caller, which a frozen array refuses as well
Pop(obj) ==
    IF obj.frozen \/ obj.slots = <<>> THEN obj
    ELSE [obj EXCEPT !.slots = SubSeq(@, 1, Len(@) - 1)]

\* a property read result[name] of an AttemptResult of src/attempt.js: the
\* classes define the getter status and nothing else, and an array has no
\* property value, error or ok
Get(obj, name) ==
    CASE name = "status" -> status(obj)
      [] name = "length" -> Num(Len(obj.slots))
      [] OTHER -> Undefined

\* ------------------------------------------------------------------------
\* Promises

\* Promise.try(callback, arg): the callback is invoked at once, and the
\* promise fulfils with what it returns (or what the promise it returns
\* fulfils with) and rejects with what it throws (or what its promise
\* rejects with); late says whether that is known only later
PromiseTry(cb, arg) ==
    CASE cb.k = "return" -> [k |-> "fulfil", v |-> cb.v, late |-> cb.async]
      [] cb.k = "throw" -> [k |-> "reject", v |-> cb.v, late |-> cb.async]
      [] cb.k = "echo" -> [k |-> "fulfil", v |-> arg, late |-> cb.async]
      [] cb.k = "rethrow" -> [k |-> "reject", v |-> arg, late |-> cb.async]
      [] cb.k = "fulfil" -> [k |-> "fulfil", v |-> cb.v, late |-> TRUE]
      [] cb.k = "reject" -> [k |-> "reject", v |-> cb.v, late |-> TRUE]

\* the promise an async function returns: it resolves with what the
\* function returns and rejects with what it throws
Async(c) == [c EXCEPT !.k = IF c.k = "return" THEN "resolve" ELSE "reject"]

\* a chain that catches the rejection of a promise and lets what the
\* callback threw at once escape
thenSucceedCatchLate(settle, h) ==
    IF settle.k = "fulfil" THEN succeed(settle.v, h)
    ELSE IF settle.late THEN fail(settle.v, h)
    ELSE Throw(settle.v, h)

\* promise.then(succeed).catch(fail) once promise has settled as settle
thenSucceedCatchFail(settle, h) ==
    IF settle.k = "fulfil" THEN succeed(settle.v, h) ELSE fail(settle.v, h)

\* the reason wrapped in a new Error whatever it is
signalReasonAlwaysWraps(signal) == NewError(Signals[signal.n].reason)

\* the reason handleResultAsync hands to fail() for an aborted signal
signalReason(signal) ==
    IF IsError(Signals[signal.n].reason) THEN Signals[signal.n].reason
    ELSE NewError(Signals[signal.n].reason)

\* an outcome made in the scratch heap c.h of a pipeline is handed to the
\* caller, whose heap is h: the intermediate outcomes are dropped
Export(c, h) ==
    IF isAttemptResult(c.v) /\ c.v.n > Len(h)
    THEN [c EXCEPT !.v = Ref(Len(h) + 1), !.h = Append(h, c.h[c.v.n])]
    ELSE [c EXCEPT !.h = h]

\* ------------------------------------------------------------------------
\* The classes of the v1.0.6 refactor (src/unnamed/part_001)

\* ResultTuple's constructor: super(value, error, ok); Object.freeze(this)
ResultTuple(cls, value, error, ok) ==
    [cls |-> cls, slots |-> <<value, error, ok>>, frozen |-> TRUE]

\* new SuccessTuple(value)
SuccessTuple(value) == ResultTuple("SuccessTuple", value, Null, True)

\* new FailureTuple(error)
FailureTuple(error) ==
    IF error.t = "string"
    THEN ResultTuple("FailureTuple", Null, NewError(error), False)
    ELSE IF IsError(error)
    THEN ResultTuple("FailureTuple", Null, error, False)
    ELSE IF ~IsAbortSignal(error)
    THEN ResultTuple("FailureTuple", Null, NewTypeError("Invalid error type provided."), False)
    ELSE IF ~Signals[error.n].aborted
    THEN ResultTuple("FailureTuple", Null, NewTypeError("Failed with a non-aborted AbortSignal."), False)
    ELSE IF Signals[error.n].reason.t = "string"
    THEN ResultTuple("FailureTuple", Null, NewError(Signals[error.n].reason), False)
    ELSE ResultTuple("FailureTuple", Null, Signals[error.n].reason, False)

\* the getters of ResultTuple, SuccessTuple and FailureTuple
TupleGet(obj, name) ==
    CASE name = "value" -> Index(obj, VALUE_INDEX)
      [] name = "error" -> Index(obj, ERROR_INDEX)
      [] name = "ok" -> Index(obj, OK_INDEX)
      [] name = "status" -> (IF obj.cls = "SuccessTuple" THEN SUCCEEDED ELSE FAILED)
      [] name = "length" -> Num(Len(obj.slots))
      [] OTHER -> Undefined

\* succeed of v1.0.6: value instanceof ResultTuple ? value : new
\* SuccessTuple(value); the outcomes that exist are those of h
succeedTuple(value, h) == IF isAttemptResult(value) THEN h[value.n] ELSE SuccessTuple(value)

\* fail of v1.0.6
failTuple(err, h) == IF isAttemptResult(err) THEN h[err.n] ELSE FailureTuple(err)

\* callbacks.reduce((promise, callback) => promise.then(callback), ...) from
\* the i-th callback on: a fulfilled promise hands its value to the callback
\* and a rejected one passes the callback by
RECURSIVE Reduce(_, _, _, _)
Reduce(callbacks, i, promise, calls) ==
    IF i > Len(callbacks) THEN [promise |-> promise, calls |-> calls]
    ELSE IF promise.k = "reject" THEN Reduce(callbacks, i + 1, promise, calls)
    ELSE Reduce(callbacks, i + 1, PromiseTry(callbacks[i], promise.v),
                Append(calls, [f |-> callbacks[i].name, arg |-> promise.v]))

\* attemptAll of v1.0.6: the reduction from Promise.resolve(NONE), then
\* .then(succeed, fail)
attemptAllReduce(callbacks, h) ==
    IF \E i \in DOMAIN callbacks : ~callbacks[i].fn
    THEN [k |-> "reject", v |-> NewTypeError("All callbacks must be functions."), calls |-> <<>>]
    ELSE [k |-> "resolve",
          v |-> IF Reduce(callbacks, 1, [k |-> "fulfil", v |-> Null, late |-> FALSE], <<>>).promise.k = "fulfil"
                THEN succeedTuple(Reduce(callbacks, 1, [k |-> "fulfil", v |-> Null, late |-> FALSE], <<>>).promise.v, h)
                ELSE failTuple(Reduce(callbacks, 1, [k |-> "fulfil", v |-> Null, late |-> FALSE], <<>>).promise.v, h),
          calls |-> Reduce(callbacks, 1, [k |-> "fulfil", v |-> Null, late |-> FALSE], <<>>).calls]

\* ------------------------------------------------------------------------
\* State: heap holds the AttemptResult objects of src/attempt.js the caller
\* has, tuples the ResultTuple objects of the v1.0.6 classes, ret the call
\* that has just completed, task the attemptAsync or handleResultAsync call
\* in flight and all the attemptAll call in flight.

\* the outcomes that exist
Refs == {Ref(i) : i \in DOMAIN heap}

\* a reference to the ResultTuple object at address n of tuples
TupleRef(n) == JS("object", "ResultTuple", "", n)

\* what the last call was and how it completed
Done(op, arg, cbs, sig, c) ==
    [op |-> op, arg |-> arg, cbs |-> cbs, sig |-> sig, k |-> c.k, v |-> c.v, calls |-> c.calls]

NoCall == Done("none", Undefined, <<>>, Undefined, Return(Undefined, <<>>))

NoTask == [pc |-> "idle"]

\* the calls of attemptAll and attemptAsync that are in flight side by side
\* when the caller starts one without awaiting the other
Pipelines == 1..2

Init ==
    /\ heap = <<>>
    /\ tuples = <<>>
    /\ ret = NoCall
    /\ task = NoTask
    /\ all = NoTask
    /\ fired = FALSE
    /\ pipes = [p \in Pipelines |-> NoTask]

\* the single caller is about to make its next call
Ready == ret.op = "none" /\ task.pc = "idle" /\ all.pc = "idle"

\* a call completes with c, if the heap it leaves fits the bound
Complete(op, arg, cbs, sig, c) ==
    /\ Len(c.h) <= MaxHeap
    /\ heap' = c.h
    /\ ret' = Done(op, arg, cbs, sig, c)

\* the caller takes the completion of its call and goes on
Continue ==
    /\ ret.op # "none"
    /\ ret' = NoCall
    /\ fired' = FALSE
    /\ UNCHANGED <<heap, tuples, task, all, pipes>>

\* the functions the caller passes as callback or handler under the name
\* name, and the things it passes that are no functions
SyncFunctions(name) ==
    {Callback(name, TRUE, FALSE, "return", v) : v \in {Num(5)} \cup Refs}
    \cup {Callback(name, TRUE, FALSE, "throw", e) : e \in {Str("boom"), Err1, SigLive} \cup Refs}
    \cup {Callback(name, TRUE, FALSE, "echo", Undefined)}

AsyncFunctions(name) ==
    {Callback(name, TRUE, TRUE, "return", Num(5)), Callback(name, TRUE, TRUE, "throw", Err1),
     Callback(name, TRUE, FALSE, "fulfil", Num(5)), Callback(name, TRUE, FALSE, "reject", Err1),
     Callback(name, TRUE, FALSE, "reject", SigLive)}

Handlers(name) ==
    {Callback(name, TRUE, FALSE, "return", Null), Callback(name, TRUE, FALSE, "throw", SigLive),
     Callback(name, TRUE, FALSE, "echo", Undefined), Callback(name, TRUE, FALSE, "rethrow", Undefined),
     Callback(name, TRUE, TRUE, "return", Null), NotAFunction(name), Absent(name)}

\* the name of the i-th callback of a list
CallbackName(i) == "cb" \o NumberToString(i)

\* the callback lists passed to attemptAll
CallbackLists ==
    UNION {{[i \in 1..n |-> [f[i] EXCEPT !.name = CallbackName(i)]] :
                f \in [1..n -> SyncFunctions("cb")
                                 \cup {Callback("cb", TRUE, FALSE, "reject", Str("boom")), NotAFunction("cb")}]} :
           n \in 0..MaxCallbacks}

CallSucceed ==
    /\ Ready
    /\ \E v \in Values \cup Refs : Complete("succeed", v, <<>>, Undefined, succeed(v, heap))
    /\ UNCHANGED <<tuples, task, all, fired, pipes>>

CallFail ==
    /\ Ready
    /\ \E e \in Thrown \cup Refs : Complete("fail", e, <<>>, Undefined, fail(e, heap))
    /\ UNCHANGED <<tuples, task, all, fired, pipes>>

CallGetResultValue ==
    /\ Ready
    /\ \E r \in {Null} \cup Refs : Complete("getResultValue", r, <<>>, Undefined, getResultValue(r, heap))
    /\ UNCHANGED <<tuples, task, all, fired, pipes>>

CallGetResultError ==
    /\ Ready
    /\ \E r \in {Null} \cup Refs : Complete("getResultError", r, <<>>, Undefined, getResultError(r, heap))
    /\ UNCHANGED <<tuples, task, all, fired, pipes>>

CallGetAttemptStatus ==
    /\ Ready
    /\ \E r \in {Null} \cup Refs : Complete("getAttemptStatus", r, <<>>, Undefined, getAttemptStatus(r, heap))
    /\ UNCHANGED <<tuples, task, all, fired, pipes>>

CallThrowIfFailed ==
    /\ Ready
    /\ \E r \in {Null} \cup Refs : Complete("throwIfFailed", r, <<>>, Undefined, throwIfFailed(r, heap))
    /\ UNCHANGED <<tuples, task, all, fired, pipes>>

CallAttemptSync ==
    /\ Ready
    /\ \E cb \in SyncFunctions("callback") \cup AsyncFunctions("callback") \cup {NotAFunction("callback")},
          a \in {Num(5)} \cup Refs :
            Complete("attemptSync", a, <<cb>>, Undefined, attemptSync(cb, a, heap))
    /\ UNCHANGED <<tuples, task, all, fired, pipes>>

\* handleResultSync(result, {success, failure, signal}): the parameter takes
\* success and failure from the object and nothing else, so that a signal
\* among the options is not read
CallHandleResultSync ==
    /\ Ready
    /\ \E r \in {Null} \cup Refs, s \in Handlers("success"), f \in Handlers("failure"),
          signal \in {Undefined, SigAbort} :
            Complete("handleResultSync", r, <<s, f>>, signal, handleResultSync(r, s, f, heap))
    /\ UNCHANGED <<tuples, task, all, fired, pipes>>

\* the caller writes to an outcome it holds: r[i] = v, r.push(v), r.pop()
CallerWrite ==
    /\ Ready
    /\ \E r \in DOMAIN heap, i \in 0..2, v \in {Null, Num(5)}, pop \in BOOLEAN :
        /\ heap' = [heap EXCEPT ![r] = IF pop THEN Pop(@) ELSE Write(@, i, v)]
        /\ ret' = Done("write", Ref(r), <<>>, Undefined,
                       IF heap[r].frozen
                       THEN Throw(NewTypeError("Cannot assign to read only property"), heap)
                       ELSE Return(v, heap))
    /\ UNCHANGED <<tuples, task, all, fired, pipes>>

\* attemptAsync(callback, arg) up to its await: a callback that is no
\* function rejects the call, any other is invoked by Promise.try
CallAttemptAsync ==
    /\ Ready
    /\ Len(heap) < MaxHeap
    /\ \E cb \in SyncFunctions("callback") \cup AsyncFunctions("callback") \cup {NotAFunction("callback")},
          a \in {Num(5)} \cup Refs :
            IF ~cb.fn
            THEN /\ ret' = Done("attemptAsync", a, <<cb>>, Undefined,
                                Async(Throw(NewTypeError("callback must be a function."), heap)))
                 /\ UNCHANGED task
            ELSE /\ task' = [pc |-> "pending", op |-> "attemptAsync", arg |-> a, cbs |-> <<cb>>,
                             sig |-> Undefined, cb |-> cb, cbarg |-> a, settle |-> PromiseTry(cb, a)]
                 /\ UNCHANGED ret
    /\ UNCHANGED <<heap, tuples, all, fired, pipes>>

\* handleResultAsync(result, {success, failure, signal}) up to its await
CallHandleResultAsync ==
    /\ Ready
    /\ Len(heap) < MaxHeap
    /\ \E r \in {Null} \cup Refs, s \in Handlers("success"), f \in Handlers("failure"),
          signal \in {Undefined, SigLive, SigAbort, SigStr, SigTimer} :
            IF ~isAttemptResult(r)
            THEN /\ ret' = Done("handleResultAsync", r, <<s, f>>, signal,
                                Async(Throw(NewTypeError("Result must be an AttemptResult tuple."), heap)))
                 /\ UNCHANGED <<heap, task>>
            ELSE IF ~Default(s, _successHandler).fn \/ ~Default(f, _failHandler).fn
            THEN /\ ret' = Done("handleResultAsync", r, <<s, f>>, signal,
                                Async(Throw(NewTypeError("Both success and failure handlers must be functions."), heap)))
                 /\ UNCHANGED <<heap, task>>
            ELSE IF IsAbortSignal(signal) /\ Signals[signal.n].aborted
            THEN /\ Complete("handleResultAsync", r, <<s, f>>, signal, Async(fail(signalReason(signal), heap)))
                 /\ UNCHANGED task
            ELSE IF getAttemptStatus(r, heap).v = SUCCEEDED
            THEN /\ task' = [pc |-> "pending", op |-> "handleResultAsync", arg |-> r, cbs |-> <<s, f>>,
                             sig |-> signal, cb |-> Default(s, _successHandler),
                             cbarg |-> getResultValue(r, heap).v,
                             settle |-> PromiseTry(Default(s, _successHandler), getResultValue(r, heap).v)]
                 /\ UNCHANGED <<heap, ret>>
            ELSE /\ task' = [pc |-> "pending", op |-> "handleResultAsync", arg |-> r, cbs |-> <<s, f>>,
                             sig |-> signal, cb |-> Default(f, _failHandler),
                             cbarg |-> getResultError(r, heap).v,
                             settle |-> PromiseTry(Default(f, _failHandler), getResultError(r, heap).v)]
                 /\ UNCHANGED <<heap, ret>>
    /\ UNCHANGED <<tuples, all, fired, pipes>>

\* the timer of the signal handed to the handleResultAsync in flight fires
\* while the promise of the handler is pending: the signal becomes aborted
TimerFires ==
    /\ task.pc = "pending"
    /\ task.op = "handleResultAsync"
    /\ task.sig = SigTimer
    /\ task.settle.late
    /\ ~fired
    /\ fired' = TRUE
    /\ UNCHANGED <<heap, tuples, ret, task, all, pipes>>

\* a settling that looks at the signal again and gives way to it
SettleChecksSignal ==
    /\ task.pc = "pending"
    /\ IF task.op = "handleResultAsync" /\ task.sig = SigTimer /\ fired
       THEN Complete(task.op, task.arg, task.cbs, task.sig,
                     AfterCall(task.cb, task.cbarg, Async(fail(NewError(Str("signal timed out")), heap))))
       ELSE Complete(task.op, task.arg, task.cbs, task.sig,
                     AfterCall(task.cb, task.cbarg, Async(thenSucceedCatchFail(task.settle, heap))))
    /\ task' = NoTask
    /\ UNCHANGED <<tuples, all, fired, pipes>>

\* the promise of the callback settles: .then(succeed).catch(fail) runs and
\* the awaiting attemptAsync (and the handleResultAsync awaiting it) resumes
Settle ==
    /\ task.pc = "pending"
    /\ Complete(task.op, task.arg, task.cbs, task.sig,
                AfterCall(task.cb, task.cbarg, Async(thenSucceedCatchFail(task.settle, heap))))
    /\ task' = NoTask
    /\ UNCHANGED <<tuples, all, fired, pipes>>

\* attemptAll that finds a callback that is no function only when the loop
\* comes to it, after the first callback has been invoked
CallAttemptAllChecksLate ==
    /\ Ready
    /\ Len(heap) < MaxHeap
    /\ \E cbs \in CallbackLists :
            IF \E i \in DOMAIN cbs : ~cbs[i].fn
            THEN /\ ret' = [Done("attemptAll", Undefined, cbs, Undefined,
                                 Async(Throw(NewTypeError("All callbacks must be functions."), heap)))
                                EXCEPT !.calls = IF cbs[1].fn THEN <<[f |-> cbs[1].name, arg |-> Null]>>
                                                 ELSE <<>>]
                 /\ UNCHANGED all
            ELSE /\ all' = [pc |-> "loop", cbs |-> cbs, i |-> 1, h |-> succeed(Null, heap).h,
                            result |-> succeed(Null, heap).v, calls |-> <<>>,
                            settle |-> [k |-> "fulfil", v |-> Undefined, late |-> FALSE]]
                 /\ UNCHANGED ret
    /\ UNCHANGED <<heap, tuples, task, fired, pipes>>

\* attemptAll(...callbacks) up to its loop
CallAttemptAll ==
    /\ Ready
    /\ Len(heap) < MaxHeap
    /\ \E cbs \in CallbackLists :
            IF \E i \in DOMAIN cbs : ~cbs[i].fn
            THEN /\ ret' = Done("attemptAll", Undefined, cbs, Undefined,
                                Async(Throw(NewTypeError("All callbacks must be functions."), heap)))
                 /\ UNCHANGED all
            ELSE /\ all' = [pc |-> "loop", cbs |-> cbs, i |-> 1, h |-> succeed(Null, heap).h,
                            result |-> succeed(Null, heap).v, calls |-> <<>>,
                            settle |-> [k |-> "fulfil", v |-> Undefined, late |-> FALSE]]
                 /\ UNCHANGED ret
    /\ UNCHANGED <<heap, tuples, task, fired, pipes>>

\* the loop of attemptAll invoking every callback with null
AttemptAllLoopFromNull ==
    /\ all.pc = "loop"
    /\ IF all.i > Len(all.cbs) \/ failed(all.result, all.h)
       THEN /\ Complete("attemptAll", Undefined, all.cbs, Undefined,
                        [Export(Async(Return(all.result, all.h)), heap) EXCEPT !.calls = all.calls])
            /\ all' = NoTask
       ELSE /\ all' = [all EXCEPT !.pc = "await",
                           !.calls = Append(@, [f |-> all.cbs[all.i].name, arg |-> Null]),
                           !.settle = PromiseTry(all.cbs[all.i], Null)]
            /\ UNCHANGED <<heap, ret>>
    /\ UNCHANGED <<tuples, task, fired, pipes>>

\* one turn of the loop of attemptAll: it returns the result when the
\* callbacks are used up, breaks when the result is a failure, and invokes
\* the next callback with the value of the result otherwise
AttemptAllLoop ==
    /\ all.pc = "loop"
    /\ IF all.i > Len(all.cbs) \/ failed(all.result, all.h)
       THEN /\ Complete("attemptAll", Undefined, all.cbs, Undefined,
                        [Export(Async(Return(all.result, all.h)), heap) EXCEPT !.calls = all.calls])
            /\ all' = NoTask
       ELSE /\ all' = [all EXCEPT !.pc = "await",
                           !.calls = Append(@, [f |-> all.cbs[all.i].name,
                                                arg |-> Index(all.h[all.result.n], VALUE_INDEX)]),
                           !.settle = PromiseTry(all.cbs[all.i], Index(all.h[all.result.n], VALUE_INDEX))]
            /\ UNCHANGED <<heap, ret>>
    /\ UNCHANGED <<tuples, task, fired, pipes>>

\* a settling that starts the callback after the next one ahead of the loop
AttemptAllSettleStartsNext ==
    /\ all.pc = "await"
    /\ IF thenSucceedCatchFail(all.settle, all.h).k = "return"
       THEN /\ all' = [all EXCEPT !.pc = "loop", !.i = @ + 1,
                           !.h = thenSucceedCatchFail(all.settle, all.h).h,
                           !.result = thenSucceedCatchFail(all.settle, all.h).v,
                           !.calls = IF all.i < Len(all.cbs)
                                     THEN Append(@, [f |-> all.cbs[all.i + 1].name, arg |-> Null])
                                     ELSE @]
            /\ UNCHANGED <<heap, ret>>
       ELSE /\ Complete("attemptAll", Undefined, all.cbs, Undefined,
                        [Export(Async(thenSucceedCatchFail(all.settle, all.h)), heap) EXCEPT !.calls = all.calls])
            /\ all' = NoTask
    /\ UNCHANGED <<tuples, task, fired, pipes>>

\* the attemptAsync that attemptAll awaits resolves, which gives the next
\* result, or rejects, which rejects attemptAll
AttemptAllSettle ==
    /\ all.pc = "await"
    /\ IF thenSucceedCatchFail(all.settle, all.h).k = "return"
       THEN /\ all' = [all EXCEPT !.pc = "loop", !.i = @ + 1,
                           !.h = thenSucceedCatchFail(all.settle, all.h).h,
                           !.result = thenSucceedCatchFail(all.settle, all.h).v]
            /\ UNCHANGED <<heap, ret>>
       ELSE /\ Complete("attemptAll", Undefined, all.cbs, Undefined,
                        [Export(Async(thenSucceedCatchFail(all.settle, all.h)), heap) EXCEPT !.calls = all.calls])
            /\ all' = NoTask
    /\ UNCHANGED <<tuples, task, fired, pipes>>

\* attemptSync(throwIfFailed, result): the try block calls
\* throwIfFailed(result) and wraps what it returns or throws
CallAttemptSyncThrowIfFailed ==
    /\ Ready
    /\ \E r \in {Null} \cup Refs :
            Complete("attemptSync(throwIfFailed)", r, <<>>, Undefined,
                     IF throwIfFailed(r, heap).k = "return"
                     THEN succeed(throwIfFailed(r, heap).v, heap)
                     ELSE fail(throwIfFailed(r, heap).v, heap))
    /\ UNCHANGED <<tuples, task, all, fired, pipes>>

\* the function createSafeSyncCallback or createSafeAsyncCallback returns:
\* a closure over callback
SafeCallback(kind) == JS("function", kind, "", 0)

\* createSafeSyncCallback(callback): the callback is not looked at
CallCreateSafeSyncCallback ==
    /\ Ready
    /\ \E cb \in SyncFunctions("callback") \cup AsyncFunctions("callback") \cup {NotAFunction("callback")} :
            ret' = Done("createSafeSyncCallback", Undefined, <<cb>>, Undefined,
                        Return(SafeCallback("sync"), heap))
    /\ UNCHANGED <<heap, tuples, task, all, fired, pipes>>

\* the caller invokes the function it got from createSafeSyncCallback, for
\* the first time or again: (...args) => attemptSync(callback, ...args)
InvokeSafeSync ==
    /\ ret.op \in {"createSafeSyncCallback", "safeSync"}
    /\ \E a \in {Num(5)} \cup Refs :
            Complete("safeSync", a, ret.cbs, Undefined, attemptSync(ret.cbs[1], a, heap))
    /\ UNCHANGED <<tuples, task, all, fired, pipes>>

\* createSafeAsyncCallback(callback), which createSafeCallback is another
\* name of
CallCreateSafeAsyncCallback ==
    /\ Ready
    /\ \E cb \in SyncFunctions("callback") \cup AsyncFunctions("callback") \cup {NotAFunction("callback")} :
            ret' = Done("createSafeAsyncCallback", Undefined, <<cb>>, Undefined,
                        Return(SafeCallback("async"), heap))
    /\ UNCHANGED <<heap, tuples, task, all, fired, pipes>>

\* the caller invokes the function it got from createSafeAsyncCallback:
\* async (...args) => await attemptAsync(callback, ...args), up to the await
InvokeSafeAsync ==
    /\ ret.op \in {"createSafeAsyncCallback", "safeAsync"}
    /\ Len(heap) < MaxHeap
    /\ \E a \in {Num(5)} \cup Refs :
            IF ~ret.cbs[1].fn
            THEN /\ ret' = Done("safeAsync", a, ret.cbs, Undefined,
                                Async(Throw(NewTypeError("callback must be a function."), heap)))
                 /\ UNCHANGED task
            ELSE /\ task' = [pc |-> "pending", op |-> "safeAsync", arg |-> a, cbs |-> ret.cbs,
                             sig |-> Undefined, cb |-> ret.cbs[1], cbarg |-> a,
                             settle |-> PromiseTry(ret.cbs[1], a)]
                 /\ ret' = NoCall
    /\ UNCHANGED <<heap, tuples, all, fired, pipes>>

Next ==
    \/ CallSucceed
    \/ CallFail
    \/ CallGetResultValue
    \/ CallGetResultError
    \/ CallGetAttemptStatus
    \/ CallThrowIfFailed
    \/ CallAttemptSync
    \/ CallAttemptSyncThrowIfFailed
    \/ CallHandleResultSync
    \/ CallerWrite
    \/ CallAttemptAsync
    \/ CallHandleResultAsync
    \/ TimerFires
    \/ Settle
    \/ CallAttemptAll
    \/ AttemptAllLoop
    \/ AttemptAllSettle
    \/ CallCreateSafeSyncCallback
    \/ InvokeSafeSync
    \/ CallCreateSafeAsyncCallback
    \/ InvokeSafeAsync
    \/ Continue

Spec == Init /\ [][Next]_vars

\* ------------------------------------------------------------------------
\* The v1.0.6 classes on their own

\* new AttemptSuccess(value) of the v1.0.6 module
NewSuccessTuple ==
    /\ ret.op = "none"
    /\ Len(tuples) < MaxTuples
    /\ \E v \in Values :
        /\ tuples' = Append(tuples, SuccessTuple(v))
        /\ ret' = Done("new SuccessTuple", v, <<>>, Undefined, Return(TupleRef(Len(tuples) + 1), <<>>))
    /\ UNCHANGED <<heap, task, all, fired, pipes>>

\* new AttemptFailure(error) of the v1.0.6 module
NewFailureTuple ==
    /\ ret.op = "none"
    /\ Len(tuples) < MaxTuples
    /\ \E e \in Thrown :
        /\ tuples' = Append(tuples, FailureTuple(e))
        /\ ret' = Done("new FailureTuple", e, <<>>, Undefined, Return(TupleRef(Len(tuples) + 1), <<>>))
    /\ UNCHANGED <<heap, task, all, fired, pipes>>

NextTuple ==
    \/ NewSuccessTuple
    \/ NewFailureTuple
    \/ Continue

SpecTuple == Init /\ [][NextTuple]_vars

\* ------------------------------------------------------------------------
\* Calls in flight side by side: the caller starts attemptAll and
\* attemptAsync calls without awaiting them, and their steps interleave.
\* Each call has its own activation: the callbacks, the position in the
\* list and the local variable result of attemptAll.

\* the functions handed to those calls
PipeFunctions ==
    {Callback("cb", TRUE, FALSE, "return", Num(5)), Callback("cb", TRUE, FALSE, "echo", Undefined),
     Callback("cb", TRUE, FALSE, "throw", Err1), Callback("cb", TRUE, FALSE, "reject", Str("boom"))}

PipeCallbackLists ==
    UNION {{[i \in 1..n |-> [f[i] EXCEPT !.name = CallbackName(i)]] : f \in [1..n -> PipeFunctions]} :
           n \in 0..MaxCallbacks}

\* another call is in flight
OthersInFlight(p) == \E q \in Pipelines \ {p} : pipes[q].pc \in {"loop", "await"}

\* attemptAll(...callbacks) up to its loop, for callbacks that are functions
PipeAttemptAll ==
    /\ Ready
    /\ \E p \in Pipelines, cbs \in PipeCallbackLists :
        /\ pipes[p].pc = "idle"
        /\ pipes' = [pipes EXCEPT ![p] =
                        [pc |-> "loop", op |-> "attemptAll", cbs |-> cbs, i |-> 1,
                         h |-> succeed(Null, heap).h, result |-> succeed(Null, heap).v,
                         calls |-> <<>>, settle |-> [k |-> "fulfil", v |-> Undefined, late |-> FALSE],
                         k |-> "pending", mixed |-> FALSE]]
    /\ UNCHANGED <<heap, tuples, ret, task, all, fired>>

\* attemptAsync(callback, arg) up to its await
PipeAttemptAsync ==
    /\ Ready
    /\ \E p \in Pipelines, cb \in PipeFunctions :
        /\ pipes[p].pc = "idle"
        /\ pipes' = [pipes EXCEPT ![p] =
                        [pc |-> "await", op |-> "attemptAsync", cbs |-> <<cb>>, i |-> 1,
                         h |-> heap, result |-> Num(5),
                         calls |-> <<[f |-> cb.name, arg |-> Num(5)]>>, settle |-> PromiseTry(cb, Num(5)),
                         k |-> "pending", mixed |-> FALSE]]
    /\ UNCHANGED <<heap, tuples, ret, task, all, fired>>

\* one turn of the loop of an attemptAll in flight
PipeLoop ==
    /\ \E p \in Pipelines :
        /\ pipes[p].pc = "loop"
        /\ pipes' = [pipes EXCEPT ![p] =
                IF @.i > Len(@.cbs) \/ failed(@.result, @.h)
                THEN [@ EXCEPT !.pc = "done", !.k = "resolve", !.mixed = @ \/ OthersInFlight(p)]
                ELSE [@ EXCEPT !.pc = "await",
                               !.calls = Append(@, [f |-> pipes[p].cbs[pipes[p].i].name,
                                                    arg |-> Index(pipes[p].h[pipes[p].result.n], VALUE_INDEX)]),
                               !.settle = PromiseTry(pipes[p].cbs[pipes[p].i],
                                                     Index(pipes[p].h[pipes[p].result.n], VALUE_INDEX)),
                               !.mixed = @ \/ OthersInFlight(p)]]
    /\ UNCHANGED <<heap, tuples, ret, task, all, fired>>

\* what the settling of the awaited attemptAsync makes of the call r
Settled(r) ==
    IF thenSucceedCatchFail(r.settle, r.h).k # "return"
    THEN [r EXCEPT !.pc = "done", !.k = "reject", !.result = thenSucceedCatchFail(r.settle, r.h).v]
    ELSE IF r.op = "attemptAsync"
    THEN [r EXCEPT !.pc = "done", !.k = "resolve",
                   !.h = thenSucceedCatchFail(r.settle, r.h).h,
                   !.result = thenSucceedCatchFail(r.settle, r.h).v]
    ELSE [r EXCEPT !.pc = "loop", !.i = @ + 1,
                   !.h = thenSucceedCatchFail(r.settle, r.h).h,
                   !.result = thenSucceedCatchFail(r.settle, r.h).v]

\* a settling that stores the result in a variable all the calls of
\* attemptAll share
PipeSettleSharedResult ==
    /\ \E p \in Pipelines :
        /\ pipes[p].pc = "await"
        /\ pipes' = [q \in Pipelines |->
                IF q = p THEN [Settled(pipes[p]) EXCEPT !.mixed = @ \/ OthersInFlight(p)]
                ELSE IF pipes[q].pc \in {"loop", "await"} /\ pipes[q].op = "attemptAll"
                THEN [pipes[q] EXCEPT !.h = Settled(pipes[p]).h, !.result = Settled(pipes[p]).result]
                ELSE pipes[q]]
    /\ UNCHANGED <<heap, tuples, ret, task, all, fired>>

\* the promise a call in flight awaits settles
PipeSettle ==
    /\ \E p \in Pipelines :
        /\ pipes[p].pc = "await"
        /\ pipes' = [pipes EXCEPT ![p] = [Settled(@) EXCEPT !.mixed = @ \/ OthersInFlight(p)]]
    /\ UNCHANGED <<heap, tuples, ret, task, all, fired>>

\* the caller takes the outcome of a call that has completed
PipeTake ==
    /\ \E p \in Pipelines :
        /\ pipes[p].pc = "done"
        /\ pipes' = [pipes EXCEPT ![p] = NoTask]
    /\ UNCHANGED <<heap, tuples, ret, task, all, fired>>

NextConcurrent ==
    \/ PipeAttemptAll
    \/ PipeAttemptAsync
    \/ PipeLoop
    \/ PipeSettle
    \/ PipeTake

SpecConcurrent == Init /\ [][NextConcurrent]_vars

\* ------------------------------------------------------------------------
\* Properties

\* the callback of the attemptSync or attemptAsync call that has completed
TheCallback == ret.cbs[1]

\* the error e carried by a failure is the normalized form of the value x
\* that was thrown: an Error object, x itself when x is one, and with the
\* message x when x is a string
NormalizedFrom(e, x) ==
    /\ IsError(e)
    /\ IsError(x) => e = x
    /\ x.t = "string" => e.s = x.s

\* C1: attemptSync(cb, ...args) never throws for a synchronous function cb:
\* it returns a Success holding what cb returned, and a Failure holding the
\* normalized thrown value when cb threw, whatever cb threw.  (Stated for
\* the callbacks that return or throw a value that is not itself an outcome;
\* an outcome is passed on as it is.)
C1_attemptSyncNeverThrows ==
    (ret.op = "attemptSync" /\ TheCallback.fn /\ ~TheCallback.async
        /\ ~isAttemptResult(Invoke(TheCallback, ret.arg).v)) =>
        /\ ret.k = "return"
        /\ Invoke(TheCallback, ret.arg).k = "return" =>
                /\ succeeded(ret.v, heap)
                /\ getResultValue(ret.v, heap).v = Invoke(TheCallback, ret.arg).v
        /\ Invoke(TheCallback, ret.arg).k = "throw" =>
                /\ failed(ret.v, heap)
                /\ NormalizedFrom(getResultError(ret.v, heap).v, Invoke(TheCallback, ret.arg).v)

\* C2: the promise of attemptAsync(cb, ...args) never rejects for a function
\* cb: it resolves to a Success holding the fulfilled value, and to a Failure
\* holding the normalized reason when cb throws or its result rejects.
\* (Stated for the callbacks that settle with a value that is not itself an
\* outcome; an outcome is passed on as it is.)
C2_attemptAsyncNeverRejects ==
    (ret.op = "attemptAsync" /\ TheCallback.fn
        /\ ~isAttemptResult(PromiseTry(TheCallback, ret.arg).v)) =>
        /\ ret.k = "resolve"
        /\ PromiseTry(TheCallback, ret.arg).k = "fulfil" =>
                /\ succeeded(ret.v, heap)
                /\ getResultValue(ret.v, heap).v = PromiseTry(TheCallback, ret.arg).v
        /\ PromiseTry(TheCallback, ret.arg).k = "reject" =>
                /\ failed(ret.v, heap)
                /\ NormalizedFrom(getResultError(ret.v, heap).v, PromiseTry(TheCallback, ret.arg).v)

\* C3: fail(x) never throws, and fail(signal) for an AbortSignal that is not
\* aborted returns a Failure whose error is a TypeError.
C3_failNeverThrows ==
    ret.op = "fail" =>
        /\ ret.k = "return"
        /\ (IsAbortSignal(ret.arg) /\ ~Signals[ret.arg.n].aborted) =>
                /\ failed(ret.v, heap)
                /\ getResultError(ret.v, heap).v.c = "TypeError"

\* C4 as stated: for every value v, succeeded(succeed(v)) is true and
\* getResultValue(succeed(v)) equals v.
C4_succeedEveryValue ==
    ret.op = "succeed" =>
        /\ succeeded(ret.v, heap)
        /\ getResultValue(ret.v, heap) = Return(ret.arg, heap)

\* C4 as amended: for every value v that is not itself an outcome, null and
\* undefined included, succeeded(succeed(v)) is true and
\* getResultValue(succeed(v)) equals v.
C4_succeedEveryPlainValue ==
    (ret.op = "succeed" /\ ~isAttemptResult(ret.arg)) =>
        /\ succeeded(ret.v, heap)
        /\ getResultValue(ret.v, heap) = Return(ret.arg, heap)

\* succeed(undefined) has returned
C4_witness == ret.op = "succeed" /\ ret.arg = Undefined /\ ret.k = "return"

\* C5: for every error-like input e (an Error, a string, a cancelled token
\* or any other value passed as an error), failed(fail(e)) is true and
\* getResultError(fail(e)) is an Error object.
C5_failEveryError ==
    (ret.op = "fail" /\ ~isAttemptResult(ret.arg)) =>
        /\ ret.k = "return"
        /\ failed(ret.v, heap)
        /\ getResultError(ret.v, heap).k = "return"
        /\ IsError(getResultError(ret.v, heap).v)

\* C6: re-wrapping is idempotent by identity: succeed and fail applied to an
\* outcome return that very outcome, and no outcome holds an outcome.
C6_rewrapIsIdentity ==
    /\ (ret.op \in {"succeed", "fail"} /\ isAttemptResult(ret.arg)) =>
            ret.k = "return" /\ ret.v = ret.arg
    /\ \A i \in DOMAIN heap : \A j \in DOMAIN heap[i].slots : ~isAttemptResult(heap[i].slots[j])

\* succeed(r) has returned for a failure r, and fail(r) for a success r
C6_witness ==
    \/ ret.op = "succeed" /\ failed(ret.arg, heap) /\ Len(heap) = MaxHeap
    \/ ret.op = "fail" /\ succeeded(ret.arg, heap) /\ Len(heap) = MaxHeap

\* the two shapes of an outcome: [value, null] and [null, Error]
Shape(obj) ==
    \/ obj.cls \in {"AttemptSuccess", "SuccessTuple"} /\ Index(obj, ERROR_INDEX) = Null
    \/ /\ obj.cls \in {"AttemptFailure", "FailureTuple"}
       /\ Index(obj, VALUE_INDEX) = Null
       /\ IsError(Index(obj, ERROR_INDEX))

\* C7: every outcome is a Success whose error slot is null or a Failure
\* whose value slot is null and whose error slot is an Error object, the
\* failures made from the reason of a cancellation token included.
C7_twoShapes ==
    /\ \A i \in DOMAIN heap : Shape(heap[i])
    /\ \A i \in DOMAIN tuples : Shape(tuples[i])

\* C8: for every outcome r, r[0] is r.value, r[1] is r.error, r[2] is r.ok,
\* and r.ok is true exactly when r.status is SUCCEEDED and false exactly when
\* it is FAILED.
C8_positionalAndNamedAgree ==
    /\ \A i \in DOMAIN heap :
        /\ Index(heap[i], VALUE_INDEX) = Get(heap[i], "value")
        /\ Index(heap[i], ERROR_INDEX) = Get(heap[i], "error")
        /\ Index(heap[i], OK_INDEX) = Get(heap[i], "ok")
        /\ Get(heap[i], "ok") = True <=> Get(heap[i], "status") = SUCCEEDED
        /\ Get(heap[i], "ok") = False <=> Get(heap[i], "status") = FAILED
    /\ \A i \in DOMAIN tuples :
        /\ Index(tuples[i], VALUE_INDEX) = TupleGet(tuples[i], "value")
        /\ Index(tuples[i], ERROR_INDEX) = TupleGet(tuples[i], "error")
        /\ Index(tuples[i], OK_INDEX) = TupleGet(tuples[i], "ok")
        /\ TupleGet(tuples[i], "ok") = True <=> TupleGet(tuples[i], "status") = SUCCEEDED
        /\ TupleGet(tuples[i], "ok") = False <=> TupleGet(tuples[i], "status") = FAILED

\* C9: an outcome never changes after construction: no operation of the
\* library and no write of the caller alters its class, its entries or their
\* number, be it held by the caller or by a running attemptAll.
C9_outcomesNeverChange ==
    [][/\ \A r \in DOMAIN heap : r \in DOMAIN heap' /\ heap'[r] = heap[r]
       /\ (all.pc # "idle" /\ all'.pc # "idle") =>
            \A r \in DOMAIN all.h : r \in DOMAIN all'.h /\ all'.h[r] = all.h[r]]_vars

\* the caller has tried to write to an outcome made by the library
C9_witness == ret.op = "write" /\ ret.k = "throw" /\ Len(heap) = MaxHeap

\* the callbacks of the list cbs that fail when invoked: they throw or
\* return a promise that rejects
Failing(cbs) == {i \in DOMAIN cbs : cbs[i].k \in {"throw", "reject"}}

\* the first of them
FirstFailing(cbs) == CHOOSE k \in Failing(cbs) : \A i \in Failing(cbs) : k <= i

\* C10: when callback k is the first of the list to fail, attemptAll invokes
\* none of the callbacks after k and resolves to a Failure carrying the
\* normalized error of callback k.  (Stated for the lists in which no
\* callback returns or throws a value that is itself an outcome.)
C10_attemptAllStopsAtFirstFailure ==
    (ret.op = "attemptAll" /\ Failing(ret.cbs) # {}
        /\ \A i \in DOMAIN ret.cbs : ret.cbs[i].fn /\ ~isAttemptResult(ret.cbs[i].v)) =>
        /\ \A j \in DOMAIN ret.calls : \A i \in DOMAIN ret.cbs :
                ret.calls[j].f = ret.cbs[i].name => i <= FirstFailing(ret.cbs)
        /\ ret.k = "resolve"
        /\ failed(ret.v, heap)
        /\ NormalizedFrom(getResultError(ret.v, heap).v, ret.cbs[FirstFailing(ret.cbs)].v)

RECURSIVE Piped(_, _)
\* the value the i-th callback of the list cbs resolves with when the
\* first is handed null and each later one the value of the one before it
Piped(cbs, i) ==
    IF i = 0 THEN Null ELSE PromiseTry(cbs[i], Piped(cbs, i - 1)).v

HandlersAreFunctions == \A i \in 1..2 : ret.cbs[i].fn \/ ret.cbs[i].k = "absent"

\* the options of that call held a signal that was aborted
TokenAborted == IsAbortSignal(ret.sig) /\ Signals[ret.sig.n].aborted

\* C12: handleResultAsync called with an outcome, handlers that are
\* functions and a signal that is already aborted resolves to a Failure
\* derived from the reason of the signal, be the outcome a Success or a
\* Failure, and invokes neither handler.
C12_abortedSignalShortCircuits ==
    (ret.op = "handleResultAsync" /\ isAttemptResult(ret.arg) /\ HandlersAreFunctions /\ TokenAborted) =>
        /\ ret.k = "resolve"
        /\ failed(ret.v, heap)
        /\ NormalizedFrom(getResultError(ret.v, heap).v, Signals[ret.sig.n].reason)
        /\ ret.calls = <<>>

\* handleResultAsync has resolved for a Success, a success handler that
\* is a function and a signal aborted with an Error
C12_witness ==
    /\ ret.op = "handleResultAsync"
    /\ succeeded(ret.arg, heap)
    /\ ret.cbs[1].k = "return"
    /\ ret.sig = SigAbort
    /\ failed(ret.v, heap)

\* C13: handleResultSync given a signal that is already aborted returns a
\* Failure derived from the reason of the signal without invoking either
\* handler, be the outcome a Success or a Failure, as handleResultAsync
\* does.
C13_syncHonoursAbortedSignal ==
    (ret.op = "handleResultSync" /\ isAttemptResult(ret.arg) /\ HandlersAreFunctions /\ TokenAborted) =>
        /\ ret.k = "return"
        /\ failed(ret.v, heap)
        /\ NormalizedFrom(getResultError(ret.v, heap).v, Signals[ret.sig.n].reason)
        /\ ret.calls = <<>>

\* the handler that call dispatches to, and what it is handed
TheHandler ==
    IF succeeded(ret.arg, heap) THEN Default(ret.cbs[1], _successHandler)
    ELSE Default(ret.cbs[2], _failHandler)

ThePayload ==
    IF succeeded(ret.arg, heap) THEN getResultValue(ret.arg, heap).v
    ELSE getResultError(ret.arg, heap).v

\* the dispatch went through to an executor and the handler is one the
\* executor takes: attemptSync takes no async function
Dispatched ==
    /\ ret.op \in {"handleResultSync", "handleResultAsync"}
    /\ isAttemptResult(ret.arg)
    /\ HandlersAreFunctions
    /\ ~TokenAborted
    /\ ret.op = "handleResultSync" => ~TheHandler.async

\* C14: with no aborted signal, handleResultSync and handleResultAsync
\* invoke exactly one handler exactly once, the success handler with the
\* value of a Success and the failure handler with the error of a Failure,
\* and the result is the executor's outcome of that handler: a Success
\* holding what the handler returned, a Failure holding the normalized
\* value it threw.
C14_exactlyOneHandler ==
    Dispatched =>
        /\ ret.calls = <<[f |-> TheHandler.name, arg |-> ThePayload]>>
        /\ ret.k = (IF ret.op = "handleResultSync" THEN "return" ELSE "resolve")
        /\ PromiseTry(TheHandler, ThePayload).k = "fulfil" =>
                /\ succeeded(ret.v, heap)
                /\ getResultValue(ret.v, heap).v = PromiseTry(TheHandler, ThePayload).v
        /\ PromiseTry(TheHandler, ThePayload).k = "reject" =>
                /\ failed(ret.v, heap)
                /\ NormalizedFrom(getResultError(ret.v, heap).v, PromiseTry(TheHandler, ThePayload).v)

\* C15: for every outcome and every pair of handlers that are functions,
\* async functions included, handleResultSync returns an outcome without
\* throwing and handleResultAsync resolves to an outcome without rejecting,
\* whatever the handlers return or throw.
C15_dispatcherResultIsOutcome ==
    (ret.op \in {"handleResultSync", "handleResultAsync"} /\ isAttemptResult(ret.arg)
        /\ HandlersAreFunctions) =>
        /\ ret.k = (IF ret.op = "handleResultSync" THEN "return" ELSE "resolve")
        /\ isAttemptResult(ret.v)

C18_failNormalizesByKind ==
    (ret.op = "fail" /\ ~isAttemptResult(ret.arg) /\ ~IsAbortSignal(ret.arg)) =>
        /\ ret.k = "return"
        /\ failed(ret.v, heap)
        /\ IsError(ret.arg) => getResultError(ret.v, heap).v = ret.arg
        /\ ret.arg.t = "string" =>
                /\ getResultError(ret.v, heap).v.c = "Error"
                /\ getResultError(ret.v, heap).v.s = ret.arg.s
        /\ (~IsError(ret.arg) /\ ret.arg.t # "string") =>
                /\ getResultError(ret.v, heap).v.c = "TypeError"
                /\ getResultError(ret.v, heap).v.s = "Invalid error type provided."

\* fail(42) has returned
C18_witness == ret.op = "fail" /\ ret.arg = Num(42) /\ failed(ret.v, heap)

\* the error e is what the reason of an aborted signal is normalized to: the
\* reason itself when it is an Error, an Error with the reason as its
\* message when it is a string
FromReason(e, reason) ==
    /\ IsError(reason) => e = reason
    /\ reason.t = "string" => e.c = "Error" /\ e.s = reason.s

\* C19: fail(signal) for an AbortSignal that is aborted returns a Failure
\* whose error is the reason of the signal itself when the reason is an
\* Error, and an Error whose message is the reason when the reason is a
\* string; so does the constructor of the v1.0.6 FailureTuple.
C19_abortedSignalReason ==
    /\ (ret.op = "fail" /\ IsAbortSignal(ret.arg) /\ Signals[ret.arg.n].aborted) =>
            /\ ret.k = "return"
            /\ failed(ret.v, heap)
            /\ FromReason(getResultError(ret.v, heap).v, Signals[ret.arg.n].reason)
    /\ \A n \in DOMAIN Signals : Signals[n].aborted =>
            /\ FailureTuple(Signal(n)).cls = "FailureTuple"
            /\ FromReason(TupleGet(FailureTuple(Signal(n)), "error"), Signals[n].reason)

\* fail(AbortSignal.abort('boom')) has returned
C19_witness == ret.op = "fail" /\ ret.arg = SigStr /\ failed(ret.v, heap)

C21_executorPreconditions ==
    /\ (ret.op = "attemptSync" /\ (~TheCallback.fn \/ TheCallback.async)) =>
            /\ ret.k = "throw"
            /\ ret.v.c = "TypeError"
            /\ ret.calls = <<>>
    /\ (ret.op = "attemptAsync" /\ ~TheCallback.fn) =>
            /\ ret.k = "reject"
            /\ ret.v.c = "TypeError"
            /\ ret.calls = <<>>

\* attemptSync has thrown for an async function
C21_witness == ret.op = "attemptSync" /\ TheCallback.async /\ ret.k = "throw"

\* C22: if any argument of attemptAll is no function, attemptAll rejects
\* with a TypeError and none of the callbacks is invoked, the functions that
\* come before it in the list included.
C22_attemptAllPreconditions ==
    (ret.op = "attemptAll" /\ \E i \in DOMAIN ret.cbs : ~ret.cbs[i].fn) =>
        /\ ret.k = "reject"
        /\ ret.v.c = "TypeError"
        /\ ret.calls = <<>>

\* attemptAll has rejected for a list whose first entry is a function and
\* whose second is none
C22_witness ==
    /\ ret.op = "attemptAll"
    /\ Len(ret.cbs) >= 2
    /\ ret.cbs[1].fn /\ ~ret.cbs[2].fn
    /\ ret.k = "reject"

\* the callback that fails with the same value the other way: it returns a
\* promise that rejects where cb throws, and throws where cb returns a
\* promise that rejects
Twin(cb) == [cb EXCEPT !.k = IF @ = "throw" THEN "reject" ELSE "throw", !.async = FALSE]

\* what attemptAsync of the twin of the callback completes with when it
\* is called next
TwinRun == Async(thenSucceedCatchFail(PromiseTry(Twin(TheCallback), ret.arg), heap))

\* C23: for every value e, attemptAsync of a callback that throws e and
\* attemptAsync of a callback that returns a promise which later rejects
\* with e complete the same way, and the outcomes they resolve to have the
\* same status and the same error.
C23_throwAndRejectAgree ==
    (ret.op = "attemptAsync" /\ TheCallback.fn /\ TheCallback.k \in {"throw", "reject"}) =>
        /\ TwinRun.k = ret.k
        /\ ret.k = "resolve" =>
                /\ status(TwinRun.h[TwinRun.v.n]) = status(heap[ret.v.n])
                /\ Index(TwinRun.h[TwinRun.v.n], ERROR_INDEX) = Index(heap[ret.v.n], ERROR_INDEX)
        /\ ret.k = "reject" => TwinRun.v = ret.v

\* attemptAsync has resolved to a Failure for a callback whose promise
\* rejected with an error of the caller
C23_witness ==
    /\ ret.op = "attemptAsync"
    /\ TheCallback.k = "reject" /\ TheCallback.v = Err1
    /\ failed(ret.v, heap)

\* what attemptSync and attemptAsync of the callback complete with when
\* they are called next with the same argument
SyncRun == attemptSync(TheCallback, ret.arg, heap)

AsyncRun ==
    IF ~TheCallback.fn THEN Async(Throw(NewTypeError("callback must be a function."), heap))
    ELSE Async(thenSucceedCatchFail(PromiseTry(TheCallback, ret.arg), heap))

\* the outcome at r of the heap h and the one at q of the heap g are equal
SameOutcome(r, h, q, g) ==
    /\ isAttemptResult(r) /\ isAttemptResult(q)
    /\ h[r.n] = g[q.n]

\* C24: for every function f and every argument, each call of the function
\* createSafeSyncCallback(f) returns never throws and returns an outcome
\* equal to that of attemptSync(f, ...args), and each call of the function
\* createSafeAsyncCallback(f) returns never rejects and resolves to the
\* outcome of attemptAsync(f, ...args).
C24_safeCallbacks ==
    /\ (ret.op = "safeSync" /\ TheCallback.fn) =>
            /\ ret.k = "return"
            /\ SyncRun.k = "return"
            /\ SameOutcome(ret.v, heap, SyncRun.v, SyncRun.h)
    /\ (ret.op = "safeAsync" /\ TheCallback.fn) =>
            /\ ret.k = "resolve"
            /\ AsyncRun.k = "resolve"
            /\ SameOutcome(ret.v, heap, AsyncRun.v, AsyncRun.h)

\* C25: throwIfFailed(r) throws the very error object r carries when r is a
\* Failure and returns without throwing when r is a Success; so
\* attemptSync(throwIfFailed, r) for a Failure r gives a Failure with the
\* same error.
C25_throwIfFailed ==
    /\ (ret.op = "throwIfFailed" /\ failed(ret.arg, heap)) =>
            ret.k = "throw" /\ ret.v = Index(heap[ret.arg.n], ERROR_INDEX)
    /\ (ret.op = "throwIfFailed" /\ succeeded(ret.arg, heap)) => ret.k = "return"
    /\ (ret.op = "attemptSync(throwIfFailed)" /\ failed(ret.arg, heap)) =>
            /\ ret.k = "return"
            /\ failed(ret.v, heap)
            /\ Index(heap[ret.v.n], ERROR_INDEX) = Index(heap[ret.arg.n], ERROR_INDEX)

\* attemptSync(throwIfFailed, r) has returned a new Failure for a Failure r
C25_witness ==
    /\ ret.op = "attemptSync(throwIfFailed)"
    /\ failed(ret.arg, heap)
    /\ failed(ret.v, heap)
    /\ ret.v # ret.arg

\* the callbacks of a running attemptAll that have been invoked are the
\* first ones of the list, each once and in the order of the list; all
\* but the last have settled, and the last is in flight exactly while
\* attemptAll awaits it
InOrder ==
    all.pc # "idle" =>
        /\ Len(all.calls) = (IF all.pc = "await" THEN all.i ELSE all.i - 1)
        /\ Len(all.calls) <= Len(all.cbs)
        /\ \A j \in DOMAIN all.calls : all.calls[j].f = all.cbs[j].name

\* a callback is invoked only when none is in flight, and then it is the
\* one after the callbacks that have settled
OneAtATime ==
    (all.pc # "idle" /\ all'.pc # "idle" /\ all'.calls # all.calls) =>
        /\ all.pc = "loop" /\ all'.pc = "await"
        /\ Len(all'.calls) = Len(all.calls) + 1
        /\ all'.calls[Len(all'.calls)].f = all.cbs[all.i].name

\* C26: within one run of attemptAll callback k+1 is never invoked before
\* callback k has settled: the callbacks are invoked from left to right,
\* each at most once, and never is more than one of them in flight.
C26_oneCallbackAtATime == []InOrder /\ [][OneAtATime]_vars

\* the second callback of a list is in flight
C26_witness == all.pc = "await" /\ all.i = 2 /\ all.settle.late

\* what attemptAsync of the handler with the payload completes with when
\* it is called next
HandlerRun == Async(thenSucceedCatchFail(PromiseTry(TheHandler, ThePayload), heap))

\* C27: the signal is consulted once, at the entry of handleResultAsync:
\* when it is not aborted then and becomes aborted while the handler is
\* pending, the handler is not interrupted and the call completes with the
\* handler's own outcome, as attemptAsync of the handler does, and not with
\* a Failure made from the signal.
C27_signalConsultedOnce ==
    (ret.op = "handleResultAsync" /\ ret.sig = SigTimer /\ fired
        /\ isAttemptResult(ret.arg) /\ HandlersAreFunctions) =>
        /\ ret.calls = <<[f |-> TheHandler.name, arg |-> ThePayload]>>
        /\ ret.k = HandlerRun.k
        /\ ret.k = "resolve" => SameOutcome(ret.v, heap, HandlerRun.v, HandlerRun.h)
        /\ (ret.k = "resolve" /\ PromiseTry(TheHandler, ThePayload).k = "fulfil") => succeeded(ret.v, heap)

\* handleResultAsync has resolved to the Success of a handler during
\* whose run the signal became aborted
C27_witness ==
    /\ ret.op = "handleResultAsync"
    /\ ret.sig = SigTimer
    /\ fired
    /\ succeeded(ret.v, heap)
    /\ Len(ret.calls) = 1

\* the call r run from its start to its end with nothing else in flight
RECURSIVE RunAlone(_)
RunAlone(r) ==
    IF r.pc = "done" THEN r
    ELSE IF r.pc = "await" THEN RunAlone(Settled(r))
    ELSE IF r.i > Len(r.cbs) \/ failed(r.result, r.h)
    THEN [r EXCEPT !.pc = "done", !.k = "resolve"]
    ELSE RunAlone([r EXCEPT !.pc = "await",
                            !.calls = Append(@, [f |-> r.cbs[r.i].name,
                                                 arg |-> Index(r.h[r.result.n], VALUE_INDEX)]),
                            !.settle = PromiseTry(r.cbs[r.i], Index(r.h[r.result.n], VALUE_INDEX))])

\* the call as it started
Started(r) ==
    IF r.op = "attemptAsync"
    THEN [r EXCEPT !.pc = "await", !.h = heap, !.result = Num(5), !.k = "pending",
                   !.settle = PromiseTry(r.cbs[1], Num(5))]
    ELSE [r EXCEPT !.pc = "loop", !.i = 1, !.calls = <<>>, !.k = "pending",
                   !.h = succeed(Null, heap).h, !.result = succeed(Null, heap).v,
                   !.settle = [k |-> "fulfil", v |-> Undefined, late |-> FALSE]]

AsWhenAlone ==
    \A p \in Pipelines :
        pipes[p].pc = "done" =>
            /\ pipes[p].k = RunAlone(Started(pipes[p])).k
            /\ pipes[p].calls = RunAlone(Started(pipes[p])).calls
            /\ IF pipes[p].k = "resolve"
               THEN SameOutcome(pipes[p].result, pipes[p].h,
                                RunAlone(Started(pipes[p])).result, RunAlone(Started(pipes[p])).h)
               ELSE pipes[p].result = RunAlone(Started(pipes[p])).result

OwnActivationOnly ==
    \A p, q \in Pipelines : pipes'[p] # pipes[p] /\ pipes'[q] # pipes[q] => p = q

\* C28: calls of attemptAll and attemptAsync in flight side by side, their
\* steps interleaved in any order, each complete with the outcome, the
\* callback invocations and the arguments they have when run alone, and a
\* step of one call changes nothing of another call.
C28_concurrentCallsAreIndependent == []AsWhenAlone /\ [][OwnActivationOnly]_vars

C28_witness ==
    /\ \A p \in Pipelines : pipes[p].pc = "done" /\ pipes[p].mixed
    /\ pipes[1].op = "attemptAll" /\ Len(pipes[1].calls) = 2 /\ pipes[1].k = "resolve"
    /\ succeeded(pipes[1].result, pipes[1].h)
    /\ pipes[2].op = "attemptAll" /\ failed(pipes[2].result, pipes[2].h)

\* what the callback of the completed call returned, and what it threw
Returned ==
    IF TheCallback.k \in {"return", "fulfil"} THEN TheCallback.v
    ELSE IF TheCallback.k = "echo" THEN ret.arg
    ELSE Undefined

Raised == IF TheCallback.k \in {"throw", "reject"} THEN TheCallback.v ELSE Undefined

Executed ==
    /\ ret.op \in {"attemptSync", "attemptAsync"}
    /\ TheCallback.fn
    /\ ret.op = "attemptSync" => ~TheCallback.async

\* C29: re-wrapping keeps the status of the outcome it is given: succeed of
\* a Failure returns that Failure and fail of a Success returns that Success,
\* so attemptSync and attemptAsync give the Failure their callback returned
\* or resolved to, and the Success their callback threw or rejected with.
C29_rewrapKeepsStatus ==
    /\ (ret.op = "succeed" /\ failed(ret.arg, heap)) =>
            ret.k = "return" /\ ret.v = ret.arg /\ failed(ret.v, heap)
    /\ (ret.op = "fail" /\ succeeded(ret.arg, heap)) =>
            ret.k = "return" /\ ret.v = ret.arg /\ succeeded(ret.v, heap)
    /\ (Executed /\ failed(Returned, heap)) =>
            ret.k \in {"return", "resolve"} /\ ret.v = Returned /\ failed(ret.v, heap)
    /\ (Executed /\ succeeded(Raised, heap)) =>
            ret.k \in {"return", "resolve"} /\ ret.v = Raised /\ succeeded(ret.v, heap)

\* attemptSync has returned the Success its callback threw
C29_witness ==
    /\ ret.op = "attemptSync"
    /\ TheCallback.k = "throw"
    /\ succeeded(TheCallback.v, heap)
    /\ ret.k = "return" /\ succeeded(ret.v, heap)

\* two outcome objects have the same status and the same payload
SameStatusAndPayload(a, b) ==
    /\ a.cls \in {"AttemptSuccess", "SuccessTuple"} <=> b.cls \in {"AttemptSuccess", "SuccessTuple"}
    /\ Index(a, VALUE_INDEX) = Index(b, VALUE_INDEX)
    /\ Index(a, ERROR_INDEX) = Index(b, ERROR_INDEX)

\* C30: the attemptAll of src/attempt.js, a loop, and the attemptAll of
\* v1.0.6, a promise chain, invoke the same callbacks with the same arguments
\* in the same order and complete with outcomes of the same status and
\* payload, for every list of callbacks, those that return an existing
\* Failure or throw an existing Success included.  (Stated for callbacks
\* that throw no AbortSignal that is not aborted, which C3 is about.)
C30_loopAndChainAgree ==
    (ret.op = "attemptAll" /\ \A i \in DOMAIN ret.cbs : ret.cbs[i].v # SigLive) =>
        /\ ret.k = attemptAllReduce(ret.cbs, heap).k
        /\ ret.calls = attemptAllReduce(ret.cbs, heap).calls
        /\ IF ret.k = "resolve"
           THEN SameStatusAndPayload(heap[ret.v.n], attemptAllReduce(ret.cbs, heap).v)
           ELSE ret.v = attemptAllReduce(ret.cbs, heap).v

====
